---- MODULE Spec2Model ----
(***************************************************************************)
(* Model of the iunoia-core numeric pipeline:                              *)
(*   features.py    build_features    raw payload -> feature vector        *)
(*   predictor.py   predict_from_features / predict_features / predict_raw *)
(*   risk_scores.py attach_risk_breakdown                                  *)
(*                                                                         *)
(* Python floats are modelled in decimal fixed point.  The unit of every   *)
(* quantity is written next to its definition:                             *)
(*   payload floats          1e-4   (FloatScale)                           *)
(*   feature values          1e-3   (mission_day: whole days)              *)
(*   outputs values          1e-3   (cortisol_load, days, bone loss)       *)
(*   axis risk scores        1e-5                                          *)
(*   composite risk score    1e-7                                          *)
(* round(x, k) is decimal round-half-even on the fixed-point value; on an  *)
(* exact decimal tie (x.xx5) the binary float of the code may round either *)
(* way, so the inputs behind the properties below avoid such ties.         *)
(* math.exp is evaluated by its series to about 1e-6.                      *)
(* Strings are sequences of one-character strings, so that strip(),        *)
(* lower(), int() and float() are computed and not assumed.                *)
(***************************************************************************)
EXTENDS Integers, Sequences, FiniteSets, TLC

\* ---------------------------------------------------------------------
\* Bounds of the model
\* ---------------------------------------------------------------------
\* objects that one chain of attach_risk_breakdown calls may allocate
MaxObjs == 3
\* terms of the series that evaluates math.exp
ExpTerms == 24

\* payload floats are held in units of 1/FloatScale
FloatScale == 10000

\* ---------------------------------------------------------------------
\* Arithmetic helpers
\* ---------------------------------------------------------------------
Max2(a, b) == IF a >= b THEN a ELSE b
Min2(a, b) == IF a <= b THEN a ELSE b

\* features.py / predictor.py / risk_scores.py: max(lo, min(hi, x))
_clamp(x, lo, hi) == Max2(lo, Min2(hi, x))

\* Python round(): n/d rounded to the nearest integer, ties to even
RoundDiv(n, d) ==
  LET q == n \div d
      r == n % d
  IN  IF 2 * r < d THEN q
      ELSE IF 2 * r > d THEN q + 1
      ELSE IF q % 2 = 0 THEN q ELSE q + 1

\* int(float): truncation toward zero of n/d
TruncDiv(n, d) == IF n >= 0 THEN n \div d ELSE -((-n) \div d)

\* ---------------------------------------------------------------------
\* Python values and strings
\* ---------------------------------------------------------------------
\* A payload value: tag names the Python type, n the number it holds
\* (int: the integer, bool: 0/1, float: units of 1/FloatScale), s the
\* characters of a str.
Val(tag, n, s) == [tag |-> tag, n |-> n, s |-> s]
Absent == Val("absent", 0, <<>>)
PyNone == Val("none", 0, <<>>)
PyList == Val("list", 0, <<>>)
PyNaN == Val("nan", 0, <<>>)
PyInf == Val("inf", 0, <<>>)
PyInt(n) == Val("int", n, <<>>)
PyFloat(n) == Val("float", n, <<>>)
PyBool(b) == Val("bool", IF b THEN 1 ELSE 0, <<>>)
PyStr(s) == Val("str", 0, s)

Digits == <<"0", "1", "2", "3", "4", "5", "6", "7", "8", "9">>
IsDigit(c) == \E i \in 1..10 : Digits[i] = c
DigitVal(c) == (CHOOSE i \in 1..10 : Digits[i] = c) - 1

Upper == <<"A", "B", "C", "D", "E", "F", "G", "H", "I", "J", "K", "L", "M",
           "N", "O", "P", "Q", "R", "S", "T", "U", "V", "W", "X", "Y", "Z">>
Lower == <<"a", "b", "c", "d", "e", "f", "g", "h", "i", "j", "k", "l", "m",
           "n", "o", "p", "q", "r", "s", "t", "u", "v", "w", "x", "y", "z">>

\* str.lower() on one character
LowerChar(c) ==
  IF \E i \in 1..26 : Upper[i] = c
  THEN Lower[CHOOSE i \in 1..26 : Upper[i] = c]
  ELSE c

\* str.lower()
StrLower(s) == [i \in 1..Len(s) |-> LowerChar(s[i])]

RECURSIVE LStrip(_)
LStrip(s) == IF s # <<>> /\ Head(s) = " " THEN LStrip(Tail(s)) ELSE s

RECURSIVE RStrip(_)
RStrip(s) ==
  IF s # <<>> /\ s[Len(s)] = " " THEN RStrip(SubSeq(s, 1, Len(s) - 1)) ELSE s

\* str.strip()
StrStrip(s) == RStrip(LStrip(s))

AllDigits(s) == s # <<>> /\ \A i \in 1..Len(s) : IsDigit(s[i])

RECURSIVE DigitsValue(_)
DigitsValue(s) ==
  IF s = <<>> THEN 0
  ELSE 10 * DigitsValue(SubSeq(s, 1, Len(s) - 1)) + DigitVal(s[Len(s)])

\* the characters of str(n) for an integer n
RECURSIVE NatDigits(_)
NatDigits(n) ==
  IF n < 10 THEN <<Digits[n + 1]>>
  ELSE NatDigits(n \div 10) \o <<Digits[(n % 10) + 1]>>

\* str(x) as build_features applies it to an enum field
StrOf(x) ==
  CASE x.tag = "str" -> x.s
    [] x.tag = "none" -> <<"N", "o", "n", "e">>
    [] x.tag = "int" -> IF x.n < 0 THEN <<"-">> \o NatDigits(-x.n)
                        ELSE NatDigits(x.n)
    [] x.tag = "bool" -> IF x.n = 1 THEN <<"T", "r", "u", "e">>
                         ELSE <<"F", "a", "l", "s", "e">>
    [] OTHER -> <<"[", "]">>

\* sign and body of a stripped numeric literal
SignOf(s) == IF s # <<>> /\ Head(s) = "-" THEN -1 ELSE 1
Unsigned(s) == IF s # <<>> /\ Head(s) \in {"-", "+"} THEN Tail(s) ELSE s

\* int(str): ok is FALSE where Python raises ValueError
ParseInt(s) ==
  LET t == StrStrip(s)
      u == Unsigned(t)
  IN  IF AllDigits(u) THEN [ok |-> TRUE, v |-> SignOf(t) * DigitsValue(u)]
      ELSE [ok |-> FALSE, v |-> 0]

\* position of the first "." of s, 0 when there is none
DotPos(s) ==
  IF \E i \in 1..Len(s) : s[i] = "."
  THEN CHOOSE i \in 1..Len(s) : s[i] = "." /\ \A j \in 1..(i - 1) : s[j] # "."
  ELSE 0

RECURSIVE Pow10(_)
Pow10(k) == IF k = 0 THEN 1 ELSE 10 * Pow10(k - 1)

\* float(str): kind is "fin" (v in units of 1/FloatScale), "nan", "inf",
\* "ninf", or "err" where Python raises ValueError.  Literals carry at most
\* four decimals; exponents are not modelled.
ParseFloat(s) ==
  LET t == StrLower(StrStrip(s))
      u == Unsigned(t)
      p == DotPos(u)
      ip == IF p = 0 THEN u ELSE SubSeq(u, 1, p - 1)
      fp == IF p = 0 THEN <<>> ELSE SubSeq(u, p + 1, Len(u))
  IN  IF u = <<"n", "a", "n">> THEN [kind |-> "nan", v |-> 0]
      ELSE IF u \in {<<"i", "n", "f">>, <<"i", "n", "f", "i", "n", "i", "t", "y">>}
      THEN [kind |-> IF SignOf(t) = 1 THEN "inf" ELSE "ninf", v |-> 0]
      ELSE IF /\ ip \o fp # <<>>
              /\ \A i \in 1..Len(ip) : IsDigit(ip[i])
              /\ \A i \in 1..Len(fp) : IsDigit(fp[i])
              /\ Len(fp) <= 4
      THEN [kind |-> "fin",
            v |-> SignOf(t) * (DigitsValue(ip) * FloatScale
                               + DigitsValue(fp) * Pow10(4 - Len(fp)))]
      ELSE [kind |-> "err", v |-> 0]

\* ---------------------------------------------------------------------
\* features.py: string literals of the encoders
\* ---------------------------------------------------------------------
S_earth == <<"e", "a", "r", "t", "h">>
S_microgravity == <<"m", "i", "c", "r", "o", "g", "r", "a", "v", "i", "t", "y">>
S_micro == <<"m", "i", "c", "r", "o">>
S_mg == <<"m", "g">>
S_low == <<"l", "o", "w">>
S_medium == <<"m", "e", "d", "i", "u", "m">>
S_high == <<"h", "i", "g", "h">>
S_none == <<"n", "o", "n", "e">>
S_mild == <<"m", "i", "l", "d">>
S_moderate == <<"m", "o", "d", "e", "r", "a", "t", "e">>
S_severe == <<"s", "e", "v", "e", "r", "e">>
S_some == <<"s", "o", "m", "e">>
S_insomnia == <<"i", "n", "s", "o", "m", "n", "i", "a">>
S_circadian == <<"c", "i", "r", "c", "a", "d", "i", "a", "n">>
S_other == <<"o", "t", "h", "e", "r">>
S_true == <<"t", "r", "u", "e">>
S_yes == <<"y", "e", "s">>
S_y == <<"y">>
S_1 == <<"1">>
S_false == <<"f", "a", "l", "s", "e">>
S_no == <<"n", "o">>
S_n == <<"n">>
S_0 == <<"0">>

\* ---------------------------------------------------------------------
\* features.py: coercion helpers
\* ---------------------------------------------------------------------
\* a float: kind "fin" with v in units of 1/FloatScale, or "nan"/"inf"/"ninf"
Fin(v) == [kind |-> "fin", v |-> v]

\* _as_int that accepts numbers only and gives the default for a str
_as_int_nostr(x, default) ==
  CASE x.tag \in {"int", "bool"} -> [raised |-> FALSE, v |-> x.n]
    [] x.tag = "float" -> [raised |-> FALSE, v |-> TruncDiv(x.n, FloatScale)]
    [] x.tag = "inf" -> [raised |-> TRUE, v |-> default]
    [] OTHER -> [raised |-> FALSE, v |-> default]

\* _as_int(x, default): raised is TRUE where int(x) raises an exception
\* other than TypeError/ValueError (OverflowError on an infinite float)
_as_int(x, default) ==
  CASE x.tag \in {"int", "bool"} -> [raised |-> FALSE, v |-> x.n]
    [] x.tag = "float" -> [raised |-> FALSE, v |-> TruncDiv(x.n, FloatScale)]
    [] x.tag = "inf" -> [raised |-> TRUE, v |-> default]
    [] x.tag = "str" -> [raised |-> FALSE,
                         v |-> IF ParseInt(x.s).ok THEN ParseInt(x.s).v
                               ELSE default]
    [] OTHER -> [raised |-> FALSE, v |-> default]

\* _as_float(x, default), default in units of 1/FloatScale
_as_float(x, default) ==
  CASE x.tag \in {"int", "bool"} -> Fin(x.n * FloatScale)
    [] x.tag = "float" -> Fin(x.n)
    [] x.tag = "nan" -> [kind |-> "nan", v |-> 0]
    [] x.tag = "inf" -> [kind |-> "inf", v |-> 0]
    [] x.tag = "str" -> IF ParseFloat(x.s).kind = "err" THEN Fin(default)
                        ELSE ParseFloat(x.s)
    [] OTHER -> Fin(default)

\* _clamp(x, lo, hi) on a float that may be nan or infinite:
\* min(hi, x) keeps hi unless x < hi, max(lo, m) keeps lo unless m > lo
ClampFloat(f, lo, hi) ==
  LET m == CASE f.kind = "fin" -> IF f.v < hi THEN f.v ELSE hi
             [] f.kind = "ninf" -> lo
             [] OTHER -> hi
  IN  IF m > lo THEN m ELSE lo

\* _as_bool(x, default)
_as_bool(x, default) ==
  CASE x.tag = "bool" -> x.n = 1
    [] x.tag = "str" ->
         LET v == StrLower(StrStrip(x.s))
         IN  IF v \in {S_true, S_yes, S_y, S_1} THEN TRUE
             ELSE IF v \in {S_false, S_no, S_n, S_0} THEN FALSE
             ELSE default
    [] x.tag \in {"int", "float"} -> x.n # 0
    [] x.tag \in {"nan", "inf"} -> TRUE
    [] OTHER -> default

\* dict.get(key, default) on a group of the payload
Get(d, key, default) == IF d[key].tag = "absent" THEN default ELSE d[key]

\* (s or dflt).strip().lower()
EnumKey(s, dflt) == StrLower(StrStrip(IF s = <<>> THEN dflt ELSE s))

\* ---------------------------------------------------------------------
\* features.py: encoders (results in units of 1e-3)
\* ---------------------------------------------------------------------
encode_gravity(gravity) ==
  IF EnumKey(gravity, S_earth) \in {S_microgravity, S_micro, S_mg}
  THEN 1000 ELSE 0

encode_radiation(level) ==
  LET key == EnumKey(level, S_medium)
  IN  CASE key = S_low -> 300
        [] key = S_medium -> 600
        [] key = S_high -> 1000
        [] OTHER -> 600

encode_isolation(level) ==
  LET key == EnumKey(level, S_medium)
  IN  CASE key = S_low -> 200
        [] key = S_medium -> 600
        [] key = S_high -> 1000
        [] OTHER -> 600

\* sleep_deficit_72h: 24h baseline, result rounded to 3 decimals
sleep_deficit_72h(x) ==
  LET optimal == 24 * FloatScale
      slept == ClampFloat(_as_float(x, 24 * FloatScale), 0, 72 * FloatScale)
      num == _clamp(optimal - slept, 0, optimal)
  IN  RoundDiv(1000 * num, optimal)

encode_cycle_irregularity_history(history) ==
  LET key == EnumKey(history, S_none)
  IN  CASE key = S_none -> 0
        [] key = S_mild -> 330
        [] key = S_moderate -> 660
        [] key = S_severe -> 1000
        [] OTHER -> 0

encode_bone_density_concerns(concerns) ==
  LET key == EnumKey(concerns, S_none)
  IN  CASE key = S_none -> 0
        [] key = S_some -> 500
        [] key = S_high -> 1000
        [] OTHER -> 0

encode_sleep_disorders(disorders) ==
  LET key == EnumKey(disorders, S_none)
  IN  CASE key = S_none -> 0
        [] key = S_insomnia -> 800
        [] key = S_circadian -> 700
        [] key = S_other -> 500
        [] OTHER -> 0

\* ---------------------------------------------------------------------
\* features.py: build_features
\* ---------------------------------------------------------------------
MissionKeys == {"mission_day", "gravity", "radiation_level", "isolation_level",
                "stress_level", "sleep_hours_last_72h"}
HistoryKeys == {"cycle_irregularity_history", "bone_density_concerns",
                "sleep_disorders", "prior_pcos_or_endometriosis"}
EmptyMission == [k \in MissionKeys |-> Absent]
EmptyHistory == [k \in HistoryKeys |-> Absent]

\* a group entry of the payload: tag "absent" (no key), "dict" (a mapping
\* with fields d) or the tag of the non-mapping value stored under the key
Group(tag, d) == [tag |-> tag, d |-> d]

\* the marker returned in place of a result when the call raised
Raised == [exception |-> TRUE]

FeatureKeys == {"mission_day", "gravity_factor", "radiation_factor",
                "isolation_factor", "stress_score", "sleep_deficit",
                "cycle_irregularity_history", "bone_density_concerns",
                "sleep_disorders", "pcos_or_endometriosis_flag",
                "stress_x_sleep", "rad_x_grav", "iso_x_stress"}

\* the stress of build_features without its _clamp
StressOf_unclamped(mission) ==
  LET f == _as_float(mission["stress_level"], FloatScale \div 2)
  IN  IF f.kind = "fin" THEN f.v ELSE FloatScale

\* the unrounded stress of build_features, units of 1/FloatScale
StressOf(mission) ==
  ClampFloat(_as_float(mission["stress_level"], FloatScale \div 2),
             0, FloatScale)

\* the three interaction terms, each rounded to 3 decimals
InteractionTerms(stress, sleep_deficit, radiation_factor, gravity_factor, isolation_factor) ==
  [stress_x_sleep |-> RoundDiv(stress * sleep_deficit, FloatScale),
   rad_x_grav |-> RoundDiv(radiation_factor * gravity_factor, 1000),
   iso_x_stress |-> RoundDiv(isolation_factor * stress, FloatScale)]

build_features(payload) ==
  LET isdict == payload.tag = "dict"
      mg == IF isdict THEN payload.mission ELSE Group("absent", EmptyMission)
      hg == IF isdict THEN payload.history ELSE Group("absent", EmptyHistory)
      mission == IF mg.tag = "dict" THEN mg.d ELSE EmptyMission
      history == IF hg.tag = "dict" THEN hg.d ELSE EmptyHistory
      day == _as_int(mission["mission_day"], 0)
      mission_day == _clamp(day.v, 0, 10000)
      gravity_factor == encode_gravity(StrOf(Get(mission, "gravity", PyStr(S_earth))))
      radiation_factor ==
        encode_radiation(StrOf(Get(mission, "radiation_level", PyStr(S_medium))))
      isolation_factor ==
        encode_isolation(StrOf(Get(mission, "isolation_level", PyStr(S_medium))))
      stress == StressOf(mission)
      sleep_deficit ==
        sleep_deficit_72h(Get(mission, "sleep_hours_last_72h", PyInt(24)))
      cycle_hist == encode_cycle_irregularity_history(
        StrOf(Get(history, "cycle_irregularity_history", PyStr(S_none))))
      bone_hist == encode_bone_density_concerns(
        StrOf(Get(history, "bone_density_concerns", PyStr(S_none))))
      sleep_hist == encode_sleep_disorders(
        StrOf(Get(history, "sleep_disorders", PyStr(S_none))))
      pcos_endo_flag ==
        IF _as_bool(history["prior_pcos_or_endometriosis"], FALSE)
        THEN 1000 ELSE 0
      inter == InteractionTerms(stress, sleep_deficit, radiation_factor,
                                gravity_factor, isolation_factor)
  IN  IF \/ mg.tag \notin {"absent", "dict"}
         \/ hg.tag \notin {"absent", "dict"}
         \/ day.raised
      THEN Raised
      ELSE [mission_day |-> mission_day,
            gravity_factor |-> gravity_factor,
            radiation_factor |-> radiation_factor,
            isolation_factor |-> isolation_factor,
            stress_score |-> RoundDiv(stress, FloatScale \div 1000),
            sleep_deficit |-> sleep_deficit,
            cycle_irregularity_history |-> cycle_hist,
            bone_density_concerns |-> bone_hist,
            sleep_disorders |-> sleep_hist,
            pcos_or_endometriosis_flag |-> pcos_endo_flag,
            stress_x_sleep |-> inter.stress_x_sleep,
            rad_x_grav |-> inter.rad_x_grav,
            iso_x_stress |-> inter.iso_x_stress]

\* ---------------------------------------------------------------------
\* predictor.py: helpers
\* ---------------------------------------------------------------------
\* math.exp(n / 60) in units of 1e-6, by its power series; the argument
\* of the simulator lies in [-3.45, 1.05]
RECURSIVE ExpSeries(_, _, _)
ExpSeries(n, k, term) ==
  IF k > ExpTerms THEN 0
  ELSE term + ExpSeries(n, k + 1, TruncDiv(term * n, 60 * (k + 1)))

Exp60(n) == ExpSeries(n, 0, 1000000)

\* 10^12 / d for 10^6 <= d, by long division within machine integers
InvMicro(d) ==
  LET r0 == 1000000000 % d
      r1 == (100 * r0) % d
  IN  1000 * (1000000000 \div d) + 10 * ((100 * r0) \div d) + (10 * r1) \div d

\* _sigmoid(x) for x = n / 60: 1 / (1 + exp(-x)), in units of 1e-6
_sigmoid(n) == InvMicro(1000000 + Exp60(-n))

\* a * b / 10^3 for b >= 0, multiplying b in two halves to stay within
\* machine integers
MulMilli(a, b) == a * (b \div 1000) + (a * (b % 1000)) \div 1000

\* a * e / 10^5 for e >= 0, multiplying in parts to stay within machine
\* integers
MulSens(a, e) ==
  (a \div 100000) * e
  + ((a % 100000) * (e \div 100)) \div 1000
  + ((a % 100000) * (e % 100)) \div 100000

\* features.get(key, default)
FGet(features, key, default) ==
  IF key \in DOMAIN features THEN features[key] ELSE default

\* ---------------------------------------------------------------------
\* predictor.py: predict_from_features
\* ---------------------------------------------------------------------
\* t = _clamp(mission_day / 180.0, 0.0, 1.5), in units of 1/180
TimeFactor(mission_day) == _clamp(mission_day, 0, 270)

\* time_gain = 0.25 + 0.55 * _sigmoid(3.0 * (t - 0.35)), units of 1e-6;
\* 3 * (t - 0.35) = (t180 - 63) / 60
TimeGain(mission_day) ==
  250000 + (55 * _sigmoid(TimeFactor(mission_day) - 63)) \div 100

\* cortisol_load in units of 1e-3 (one decimal): the interaction term sxs
\* is in units of 1e-6, the other features in units of 1e-3; the score is
\* carried in units of 1e-9
CortisolLoad(mission_day, stress, sleep_def, iso, sxs, repro_flag, sleep_dis) ==
  LET base_cort == 10 * (40 * stress + 35 * sleep_def + 15 * iso) + sxs \div 10
      gained == MulMilli(base_cort, TimeGain(mission_day))
      score == gained + MulSens(gained, 12 * repro_flag + 8 * sleep_dis)
  IN  100 * RoundDiv(_clamp(score, 0, 1000000000), 1000000)

\* cycle_variability_days without the _clamp of cycle_instability
CycleVariabilityDays_unclamped(stress, sleep_def, iso, r, irr_hist, repro_flag, sxs, ixs) ==
  LET instability ==
        1000 * (30 * stress + 25 * sleep_def + 15 * iso + 10 * r
                + 10 * irr_hist + 10 * repro_flag)
        + 8 * sxs + 5 * ixs
  IN  10 * RoundDiv(50000000 + 95 * (instability \div 10), 1000000)

\* cycle_variability_days in units of 1e-3 (two decimals)
CycleVariabilityDays(stress, sleep_def, iso, r, irr_hist, repro_flag, sxs, ixs) ==
  LET instability ==
        1000 * (30 * stress + 25 * sleep_def + 15 * iso + 10 * r
                + 10 * irr_hist + 10 * repro_flag)
        + 8 * sxs + 5 * ixs
      clamped == _clamp(instability, 0, 100000000) \div 10
  IN  10 * RoundDiv(50000000 + 95 * clamped, 1000000)

\* bone_loss_pct_per_month without the 0.07 * stress term
BoneLossPct_nostress(g, rxg, bmd_conc, sleep_def, stress) ==
  LET internal == 1000 * (55 * g + 10 * bmd_conc + 8 * sleep_def) + 20 * rxg
      clamped == _clamp(internal, 0, 100000000)
  IN  10 * RoundDiv(20000000 + 2 * clamped, 1000000)

\* bone_loss_pct_per_month in units of 1e-3 (two decimals)
BoneLossPct(g, rxg, bmd_conc, sleep_def, stress) ==
  LET internal ==
        1000 * (55 * g + 10 * bmd_conc + 8 * sleep_def + 7 * stress) + 20 * rxg
      clamped == _clamp(internal, 0, 100000000)
  IN  10 * RoundDiv(20000000 + 2 * clamped, 1000000)

\* the cortisol driver with strict comparisons in its first test
CortisolDriver_strict(sleep_def, stress, iso) ==
  IF sleep_def > stress /\ sleep_def > iso THEN "sleep deficit"
  ELSE IF stress >= sleep_def /\ stress >= iso THEN "workload/stress"
  ELSE "isolation load"

CortisolDriver(sleep_def, stress, iso) ==
  IF sleep_def >= stress /\ sleep_def >= iso THEN "sleep deficit"
  ELSE IF stress >= sleep_def /\ stress >= iso THEN "workload/stress"
  ELSE "isolation load"

\* stress_x_sleep is compared in units of 1e-6
CycleDriver(sxs, irr_hist, repro_flag) ==
  IF sxs > 250000 THEN "stress x sleep interaction"
  ELSE IF irr_hist > 400 \/ repro_flag > 0 THEN "pre-flight cycle sensitivity"
  ELSE "circadian disruption proxy"

BoneDriver(g) ==
  IF g > 500 THEN "microgravity exposure duration"
  ELSE "baseline bone density concerns"

predict_from_features(features) ==
  LET mission_day == FGet(features, "mission_day", 1)
      g == FGet(features, "gravity_factor", 0)
      r == FGet(features, "radiation_factor", 600)
      iso == FGet(features, "isolation_factor", 600)
      stress == FGet(features, "stress_score", 500)
      sleep_def == FGet(features, "sleep_deficit", 0)
      irr_hist == FGet(features, "cycle_irregularity_history", 0)
      bmd_conc == FGet(features, "bone_density_concerns", 0)
      sleep_dis == FGet(features, "sleep_disorders", 0)
      repro_flag == FGet(features, "pcos_or_endometriosis_flag", 0)
      sxs == IF "stress_x_sleep" \in DOMAIN features
             THEN 1000 * features["stress_x_sleep"] ELSE stress * sleep_def
      rxg == IF "rad_x_grav" \in DOMAIN features
             THEN 1000 * features["rad_x_grav"] ELSE r * g
      ixs == IF "iso_x_stress" \in DOMAIN features
             THEN 1000 * features["iso_x_stress"] ELSE iso * stress
  IN  [mission_day |-> mission_day,
       cortisol_load |->
         CortisolLoad(mission_day, stress, sleep_def, iso, sxs, repro_flag,
                      sleep_dis),
       cycle_variability_days |->
         CycleVariabilityDays(stress, sleep_def, iso, r, irr_hist, repro_flag,
                              sxs, ixs),
       bone_loss_pct_per_month |-> BoneLossPct(g, rxg, bmd_conc, sleep_def, stress),
       drivers |-> [cortisol |-> CortisolDriver(sleep_def, stress, iso),
                    cycle |-> CycleDriver(sxs, irr_hist, repro_flag),
                    bone |-> BoneDriver(g)]]

\* ---------------------------------------------------------------------
\* risk_scores.py
\* ---------------------------------------------------------------------
\* _bucket with the boundaries taken as inclusive upper ends (<= for <)
_bucket_inclusive(score, one) ==
  IF 100 * score <= 35 * one THEN "Low"
  ELSE IF 100 * score <= 70 * one THEN "Moderate"
  ELSE "High"

\* _bucket(score) for a score held in units of 1/one
_bucket(score, one) ==
  IF 100 * score < 35 * one THEN "Low"
  ELSE IF 100 * score < 70 * one THEN "Moderate"
  ELSE "High"

\* axis risks in units of 1e-5, from outputs values in units of 1e-3
cortisol_risk(cortisol_load) == _clamp(cortisol_load, 0, 100000)
cycle_risk(cycle_variability_days) == _clamp(10 * cycle_variability_days, 0, 100000)
bone_risk(bone_loss_pct_per_month) ==
  _clamp(50 * (bone_loss_pct_per_month - 200), 0, 100000)

\* the composite with weights 0.45, 0.30 and 0.35, which do not sum to 1
overall_risk_from_outputs_weights(outputs) ==
  LET c == cortisol_risk(FGet(outputs, "cortisol_load", 0))
      y == cycle_risk(FGet(outputs, "cycle_variability_days", 0))
      b == bone_risk(FGet(outputs, "bone_loss_pct_per_month", 200))
  IN  _clamp(45 * c + 30 * y + 35 * b, 0, 10000000)

\* composite 0.45 c + 0.30 y + 0.25 b, in units of 1e-7
overall_risk_from_outputs(outputs) ==
  LET c == cortisol_risk(FGet(outputs, "cortisol_load", 0))
      y == cycle_risk(FGet(outputs, "cycle_variability_days", 0))
      b == bone_risk(FGet(outputs, "bone_loss_pct_per_month", 200))
  IN  _clamp(45 * c + 30 * y + 25 * b, 0, 10000000)

RiskKeys == {"risk_score", "risk_overall", "risk_breakdown"}

\* one axis entry: score rounded to 3 decimals (units of 1e-3) and its bucket
AxisEntry(x) == [score |-> RoundDiv(x, 100), bucket |-> _bucket(x, 100000)]

\* attach_risk_breakdown that stores the normalised cortisol score back
\* under cortisol_load
attach_risk_breakdown_overwrite(outputs) ==
  LET c == cortisol_risk(FGet(outputs, "cortisol_load", 0))
      y == cycle_risk(FGet(outputs, "cycle_variability_days", 0))
      b == bone_risk(FGet(outputs, "bone_loss_pct_per_month", 200))
      risk_score == overall_risk_from_outputs(outputs)
  IN  [k \in DOMAIN outputs \cup RiskKeys \cup {"cortisol_load"} |->
         CASE k = "risk_score" -> RoundDiv(risk_score, 100000)
           [] k = "risk_overall" -> _bucket(risk_score, 10000000)
           [] k = "risk_breakdown" ->
                [cortisol |-> AxisEntry(c), cycle |-> AxisEntry(y),
                 bone |-> AxisEntry(b)]
           [] k = "cortisol_load" -> RoundDiv(c, 100)
           [] OTHER -> outputs[k]]

\* the mapping attach_risk_breakdown returns: out = dict(outputs) with the
\* three risk keys set; risk_score in units of 1e-2
attach_risk_breakdown(outputs) ==
  LET c == cortisol_risk(FGet(outputs, "cortisol_load", 0))
      y == cycle_risk(FGet(outputs, "cycle_variability_days", 0))
      b == bone_risk(FGet(outputs, "bone_loss_pct_per_month", 200))
      risk_score == overall_risk_from_outputs(outputs)
  IN  [k \in DOMAIN outputs \cup RiskKeys |->
         CASE k = "risk_score" -> RoundDiv(risk_score, 100000)
           [] k = "risk_overall" -> _bucket(risk_score, 10000000)
           [] k = "risk_breakdown" ->
                [cortisol |-> AxisEntry(c), cycle |-> AxisEntry(y),
                 bone |-> AxisEntry(b)]
           [] OTHER -> outputs[k]]

\* predictor.py predict_features: the outputs mapping built from the
\* prediction, before risk is attached
OutputsOf(pred) ==
  [mission_day |-> pred.mission_day,
   cortisol_load |-> pred.cortisol_load,
   cycle_variability_days |-> pred.cycle_variability_days,
   bone_loss_pct_per_month |-> pred.bone_loss_pct_per_month,
   drivers |-> pred.drivers]

\* ---------------------------------------------------------------------
\* Inputs the callers may pass
\* ---------------------------------------------------------------------
MissionDays == {Absent, PyInt(87), PyStr(<<"2", "0", "0">>), PyInt(270)}
Gravities == {Absent, PyStr(S_microgravity)}
Radiations == {PyStr(S_low), PyStr(<<"H", "i", "g", "h">>)}
Isolations == {PyStr(S_low), PyStr(S_high)}
StressLevels == {Absent, PyFloat(7200), PyFloat(48)}
SleepHours == {Absent, PyFloat(165000), PyInt(0)}

Missions ==
  {[mission_day |-> d, gravity |-> g, radiation_level |-> r,
    isolation_level |-> i, stress_level |-> s, sleep_hours_last_72h |-> h] :
     d \in MissionDays, g \in Gravities, r \in Radiations, i \in Isolations,
     s \in StressLevels, h \in SleepHours}

Histories ==
  {[cycle_irregularity_history |-> c, bone_density_concerns |-> b,
    sleep_disorders |-> s, prior_pcos_or_endometriosis |-> f] :
     c \in {Absent, PyStr(S_moderate)}, b \in {Absent, PyStr(S_some)},
     s \in {Absent, PyStr(S_circadian)}, f \in {Absent, PyBool(TRUE)}}

Payload(tag, mission, history) ==
  [tag |-> tag, mission |-> mission, history |-> history]

\* the payload {}
EmptyPayload ==
  Payload("dict", Group("absent", EmptyMission), Group("absent", EmptyHistory))

\* well-formed payloads: both groups are mappings
GridPayloads ==
  {Payload("dict", Group("dict", m), Group("dict", h)) :
     m \in Missions, h \in Histories}

\* single fields that are missing, wrong-typed or out of range
OddMissionFields ==
  {<<"mission_day", v>> :
     v \in {PyInt(-5), PyInt(20000), PyFloat(37000), PyStr(<<" ", "4", "2", " ">>),
            PyStr(<<"a", "b", "c">>), PyStr(<<"3", ".", "5">>), PyStr(<<>>), PyNone, PyList, PyNaN,
            PyInf, PyBool(TRUE)}}
  \cup {<<"gravity", v>> : v \in {PyStr(<<" ", "M", "G", " ">>), PyStr(<<"M", "i", "c", "r", "o">>), PyStr(<<"m", "o", "o", "n">>),
                                  PyStr(<<>>), PyNone, PyInt(1)}}
  \cup {<<"radiation_level", v>> :
          v \in {PyStr(<<"e", "x", "t", "r", "e", "m", "e">>), PyStr(<<" ", "L", "O", "W", " ">>), PyStr(<<>>), PyNone, PyList}}
  \cup {<<"isolation_level", v>> :
          v \in {PyStr(<<"M", "e", "d", "i", "u", "m">>), PyStr(<<"n", "o", "n", "e">>), PyInt(3), PyBool(FALSE)}}
  \cup {<<"stress_level", v>> :
          v \in {PyFloat(-30000), PyFloat(25000), PyFloat(42), PyFloat(5030), PyStr(<<"0", ".", "5">>),
                 PyStr(<<"n", "a", "n">>), PyStr(<<"-", "i", "n", "f">>), PyStr(<<"h", "i", "g", "h">>), PyNaN, PyInf,
                 PyNone, PyInt(1), PyList}}
  \cup {<<"sleep_hours_last_72h", v>> :
          v \in {PyInt(100), PyInt(-8), PyFloat(120000), PyStr(<<"1", "2">>),
                 PyStr(<<"e", "i", "g", "h", "t">>), PyNaN, PyInf, PyNone}}

OddHistoryFields ==
  {<<"cycle_irregularity_history", v>> :
     v \in {PyStr(<<" ", "S", "e", "v", "e", "r", "e">>), PyStr(<<"m", "i", "l", "d">>), PyStr(<<"o", "f", "t", "e", "n">>), PyNone}}
  \cup {<<"bone_density_concerns", v>> : v \in {PyStr(<<"H", "I", "G", "H">>), PyInt(2)}}
  \cup {<<"sleep_disorders", v>> :
          v \in {PyStr(<<"i", "n", "s", "o", "m", "n", "i", "a">>), PyStr(<<"O", "t", "h", "e", "r", " ">>), PyList}}
  \cup {<<"prior_pcos_or_endometriosis", v>> :
          v \in {PyStr(<<" ", "Y", "e", "s", " ">>), PyStr(<<"0">>), PyStr(<<"m", "a", "y", "b", "e">>), PyInt(1),
                 PyInt(0), PyNaN, PyNone, PyBool(FALSE)}}

\* the scenario-A mission and history, in which one field is then replaced
BaseMission ==
  [mission_day |-> PyInt(87), gravity |-> PyStr(S_microgravity),
   radiation_level |-> PyStr(S_high), isolation_level |-> PyStr(S_high),
   stress_level |-> PyFloat(7200), sleep_hours_last_72h |-> PyFloat(165000)]
BaseHistory ==
  [cycle_irregularity_history |-> PyStr(S_moderate),
   bone_density_concerns |-> PyStr(S_some),
   sleep_disorders |-> PyStr(S_circadian),
   prior_pcos_or_endometriosis |-> PyBool(FALSE)]

OddPayloads ==
  {Payload("dict", Group("dict", [BaseMission EXCEPT ![f[1]] = f[2]]),
           Group("dict", BaseHistory)) : f \in OddMissionFields}
  \cup {Payload("dict", Group("dict", [EmptyMission EXCEPT ![f[1]] = f[2]]),
                Group("absent", EmptyHistory)) : f \in OddMissionFields}
  \cup {Payload("dict", Group("dict", BaseMission),
                Group("dict", [BaseHistory EXCEPT ![f[1]] = f[2]])) :
          f \in OddHistoryFields}

\* payloads whose mission or history entry is not a mapping, and a payload
\* that is not a mapping itself
GroupTags == {"absent", "dict", "none", "str", "int", "list"}
ShapePayloads ==
  {Payload("dict",
           Group(mt, IF mt = "dict" THEN BaseMission ELSE EmptyMission),
           Group(ht, IF ht = "dict" THEN BaseHistory ELSE EmptyHistory)) :
     mt \in GroupTags, ht \in GroupTags}
  \cup {Payload("list", Group("absent", EmptyMission),
                Group("absent", EmptyHistory))}

Payloads == GridPayloads \cup OddPayloads \cup ShapePayloads \cup {EmptyPayload}

\* f restricted to the keys in K
Restrict(f, K) == [k \in DOMAIN f \cap K |-> f[k]]

\* feature vectors a caller of predict_features may pass: vectors that
\* build_features produces, and vectors with out-of-range values and
\* missing keys
BuiltVectors ==
  {build_features(p) : p \in OddPayloads \cup ShapePayloads \cup {EmptyPayload}}
    \ {Raised}

RawVectors ==
  {[mission_day |-> d, gravity_factor |-> g, radiation_factor |-> 600,
    isolation_factor |-> i, stress_score |-> s, sleep_deficit |-> h,
    cycle_irregularity_history |-> 660, bone_density_concerns |-> 500,
    sleep_disorders |-> sd, pcos_or_endometriosis_flag |-> f,
    stress_x_sleep |-> x, rad_x_grav |-> 600, iso_x_stress |-> 300] :
     d \in {-3, 200, 100000}, g \in {0, 1500}, i \in {-500, 1000},
     s \in {-500, 400, 1500}, h \in {400, 1500}, sd \in {0, 1500},
     f \in {0, 1000}, x \in {0, 1500}}

KeySets ==
  {FeatureKeys, {},
   FeatureKeys \ {"stress_x_sleep", "rad_x_grav", "iso_x_stress"},
   {"stress_score", "sleep_deficit", "gravity_factor"}}

\* vectors that hold only the three inputs of the cortisol driver, in every
\* order and with every tie
TieVectors ==
  {[stress_score |-> st, sleep_deficit |-> sl, isolation_factor |-> i] :
     st \in {200, 500, 800}, sl \in {200, 500, 800}, i \in {200, 500, 800}}

FeatureVectors ==
  BuiltVectors \cup {Restrict(v, K) : v \in RawVectors, K \in KeySets}
    \cup TieVectors

\* outputs mappings a caller of attach_risk_breakdown may pass: values in
\* units of 1e-3, keys possibly missing, risk fields possibly already there
StaleRisk ==
  [risk_score |-> 99, risk_overall |-> "High",
   risk_breakdown |-> [cortisol |-> [score |-> 1000, bucket |-> "High"]]]

FullOutputs ==
  {[mission_day |-> 10, cortisol_load |-> c, cycle_variability_days |-> y,
    bone_loss_pct_per_month |-> b,
    drivers |-> [cortisol |-> "sleep deficit",
                 cycle |-> "circadian disruption proxy",
                 bone |-> "baseline bone density concerns"],
    risk_score |-> StaleRisk.risk_score,
    risk_overall |-> StaleRisk.risk_overall,
    risk_breakdown |-> StaleRisk.risk_breakdown] :
     c \in {-5000, 0, 34960, 35000, 77100, 150000},
     y \in {0, 3500, 6996, 7000, 12000},
     b \in {0, 200, 900, 1600, 3000}}

OutputKeySets ==
  {{"mission_day", "cortisol_load", "cycle_variability_days",
    "bone_loss_pct_per_month", "drivers"},
   {"mission_day", "cortisol_load", "cycle_variability_days",
    "bone_loss_pct_per_month", "drivers"} \cup RiskKeys,
   {"cortisol_load", "risk_score"},
   {}}

OutputsMappings == {Restrict(o, K) : o \in FullOutputs, K \in OutputKeySets}

\* ---------------------------------------------------------------------
\* State: one caller that invokes the public functions of the package
\* ---------------------------------------------------------------------
VARIABLES
  call,       \* the function last called, "idle" before a call
  raised,     \* TRUE when that call raised an exception
  payload,    \* the payload passed to build_features / predict_raw
  feats,      \* the feature vector returned or passed
  pred,       \* the Prediction of predict_from_features
  heap,       \* the outputs mappings alive, by object identity
  argRef,     \* the object passed to attach_risk_breakdown (0: none)
  retRef,     \* the object attach_risk_breakdown returned (0: none)
  argBefore,  \* the contents of heap[argRef] when the call was made
  chain       \* attach_risk_breakdown calls applied in a row to one mapping

vars == <<call, raised, payload, feats, pred, heap, argRef, retRef,
          argBefore, chain>>

\* no value / a free heap slot
NoVal == [none |-> TRUE]
NoObj == [free |-> TRUE]
Refs == 1..MaxObjs
EmptyHeap == [i \in Refs |-> NoObj]

\* out = outputs in place of out = dict(outputs): the same object
DictCopyRef_alias(h, ref) == ref

\* the object that out = dict(outputs) creates: a fresh one
DictCopyRef(h, ref) ==
  CHOOSE i \in Refs : h[i] = NoObj /\ \A j \in 1..(i - 1) : h[j] # NoObj

\* the heap after attach_risk_breakdown(h[ref]) returned
AttachHeap(h, ref) ==
  [h EXCEPT ![DictCopyRef(h, ref)] = attach_risk_breakdown(h[ref])]

Init ==
  /\ call = "idle"
  /\ raised = FALSE
  /\ payload = NoVal
  /\ feats = NoVal
  /\ pred = NoVal
  /\ heap = EmptyHeap
  /\ argRef = 0
  /\ retRef = 0
  /\ argBefore = NoVal
  /\ chain = 0

\* build_features(p)
BuildFeaturesCall(p) ==
  /\ call = "idle"
  /\ call' = "build_features"
  /\ payload' = p
  /\ feats' = build_features(p)
  /\ raised' = (build_features(p) = Raised)
  /\ UNCHANGED <<pred, heap, argRef, retRef, argBefore, chain>>

\* predict_from_features(f)
PredictFromFeaturesCall(f) ==
  /\ call = "idle"
  /\ call' = "predict_from_features"
  /\ feats' = f
  /\ pred' = predict_from_features(f)
  /\ UNCHANGED <<raised, payload, heap, argRef, retRef, argBefore, chain>>

\* the state predict_features(f) leaves: the outputs mapping is object 1,
\* attach_risk_breakdown returns the mapping handed to the caller
PredictFeaturesEffect(f) ==
  LET outputs == OutputsOf(predict_from_features(f))
      h == [EmptyHeap EXCEPT ![1] = outputs]
  IN  /\ feats' = f
      /\ pred' = predict_from_features(f)
      /\ heap' = AttachHeap(h, 1)
      /\ argRef' = 1
      /\ retRef' = DictCopyRef(h, 1)
      /\ argBefore' = outputs
      /\ chain' = 1

\* predict_features(f)
PredictFeaturesCall(f) ==
  /\ call = "idle"
  /\ call' = "predict_features"
  /\ PredictFeaturesEffect(f)
  /\ UNCHANGED <<raised, payload>>

\* predict_raw(p): build_features, then predict_features; the result
\* {inputs, features, outputs} is <<payload, feats, heap[retRef]>>
PredictRawCall(p) ==
  /\ call = "idle"
  /\ call' = "predict_raw"
  /\ payload' = p
  /\ IF build_features(p) = Raised
     THEN /\ raised' = TRUE
          /\ feats' = Raised
          /\ UNCHANGED <<pred, heap, argRef, retRef, argBefore, chain>>
     ELSE /\ raised' = FALSE
          /\ PredictFeaturesEffect(build_features(p))

\* attach_risk_breakdown(o) on a mapping the caller made
AttachCall(o) ==
  /\ call = "idle"
  /\ call' = "attach_risk_breakdown"
  /\ heap' = AttachHeap([EmptyHeap EXCEPT ![1] = o], 1)
  /\ argRef' = 1
  /\ retRef' = DictCopyRef([EmptyHeap EXCEPT ![1] = o], 1)
  /\ argBefore' = o
  /\ chain' = 1
  /\ UNCHANGED <<raised, payload, feats, pred>>

\* attach_risk_breakdown applied to the mapping the last call returned
AttachAgain ==
  /\ retRef # 0
  /\ \E i \in Refs : heap[i] = NoObj
  /\ call' = "attach_risk_breakdown"
  /\ heap' = AttachHeap(heap, retRef)
  /\ argRef' = retRef
  /\ retRef' = DictCopyRef(heap, retRef)
  /\ argBefore' = heap[retRef]
  /\ chain' = chain + 1
  /\ UNCHANGED <<raised, payload, feats, pred>>

\* the caller drops the results and is ready for the next call
Return ==
  /\ call # "idle"
  /\ call' = "idle"
  /\ raised' = FALSE
  /\ payload' = NoVal
  /\ feats' = NoVal
  /\ pred' = NoVal
  /\ heap' = EmptyHeap
  /\ argRef' = 0
  /\ retRef' = 0
  /\ argBefore' = NoVal
  /\ chain' = 0

Next ==
  \/ \E p \in Payloads : BuildFeaturesCall(p)
  \/ \E f \in FeatureVectors : PredictFromFeaturesCall(f)
  \/ \E f \in FeatureVectors : PredictFeaturesCall(f)
  \/ \E p \in Payloads : PredictRawCall(p)
  \/ \E o \in OutputsMappings : AttachCall(o)
  \/ AttachAgain
  \/ Return

Spec == Init /\ [][Next]_vars

TypeOK ==
  /\ call \in {"idle", "build_features", "predict_from_features",
               "predict_features", "predict_raw", "attach_risk_breakdown"}
  /\ raised \in BOOLEAN
  /\ argRef \in 0..MaxObjs
  /\ retRef \in 0..MaxObjs
  /\ chain \in 0..MaxObjs

\* ---------------------------------------------------------------------
\* Properties
\* ---------------------------------------------------------------------
\* the fixed thresholds of the specification, for a score in units of 1/one
ThresholdBucket(score, one) ==
  IF 100 * score < 35 * one THEN "Low"
  ELSE IF 100 * score < 70 * one THEN "Moderate"
  ELSE "High"

Axes == {"cortisol", "cycle", "bone"}
Built == call \in {"build_features", "predict_raw"} /\ ~raised
Predicted == call \in {"predict_features", "predict_raw"} /\ retRef # 0

\* C1: build_features and predict_raw return a result and never raise, for
\* every payload that is a mapping (empty, with a mission or history entry
\* that is not a mapping, with missing, wrong-typed or out-of-range fields).
C1_NeverRaises ==
  (call \in {"build_features", "predict_raw"} /\ payload.tag = "dict")
    => ~raised

\* C2: in every result of attach_risk_breakdown, risk_overall is the bucket
\* of the reported two-decimal risk_score (Low below 0.35, Moderate from
\* 0.35 and below 0.70, High from 0.70).
C2_OverallIsBucketOfReportedScore ==
  retRef # 0 =>
    heap[retRef].risk_overall = ThresholdBucket(heap[retRef].risk_score, 100)

\* C3: every output of predict_features has a risk_breakdown with exactly
\* the axes cortisol, cycle and bone; each axis score and the risk_score
\* lie in [0,1]; each axis bucket is the threshold bucket of the reported
\* axis score (0.35 is Moderate, 0.70 is High).
C3_BreakdownShapeAndBuckets ==
  Predicted =>
    LET o == heap[retRef]
    IN  /\ DOMAIN o.risk_breakdown = Axes
        /\ o.risk_score \in 0..100
        /\ \A a \in Axes :
             /\ o.risk_breakdown[a].score \in 0..1000
             /\ o.risk_breakdown[a].bucket
                  = ThresholdBucket(o.risk_breakdown[a].score, 1000)

\* C3 witness: predict_features returned an axis score of exactly 0.35,
\* bucketed Moderate.
C3_Witness ==
  /\ Predicted
  /\ \E a \in Axes :
       /\ heap[retRef].risk_breakdown[a].score = 350
       /\ heap[retRef].risk_breakdown[a].bucket = "Moderate"

\* the risk fields of a mapping that has them
RiskFields(o) == [k \in RiskKeys |-> o[k]]

\* C4: attach_risk_breakdown is idempotent: applied to its own output it
\* reproduces the same risk_score, risk_overall and risk_breakdown,
\* whatever risk fields the first argument carried.
C4_AttachIdempotent ==
  (call = "attach_risk_breakdown" /\ chain >= 2)
    => RiskFields(heap[retRef]) = RiskFields(argBefore)

\* C4 witness: a mapping that came with stale risk fields went through
\* attach_risk_breakdown twice; the first call replaced the stale fields.
C4_Witness ==
  /\ call = "attach_risk_breakdown"
  /\ chain = 2
  /\ retRef = 3
  /\ "risk_score" \in DOMAIN heap[1]
  /\ heap[1].risk_score # heap[2].risk_score
  /\ heap[3].risk_score = heap[2].risk_score

\* C5: attach_risk_breakdown never mutates its argument and returns a
\* distinct mapping that carries every input field unchanged and differs
\* from the input only in risk_score, risk_overall and risk_breakdown.
C5_AttachLeavesArgument ==
  argRef # 0 =>
    /\ heap[argRef] = argBefore
    /\ retRef # argRef
    /\ DOMAIN heap[retRef] = DOMAIN argBefore \cup RiskKeys
    /\ \A k \in DOMAIN argBefore \ RiskKeys : heap[retRef][k] = argBefore[k]

\* C5 witness: predict_features handed its outputs mapping, which has no
\* risk fields, to attach_risk_breakdown and got the annotated copy back.
C5_Witness ==
  /\ call = "predict_features"
  /\ argRef = 1
  /\ retRef = 2
  /\ DOMAIN heap[1] \cap RiskKeys = {}
  /\ RiskKeys \subseteq DOMAIN heap[2]
  /\ heap[2].cortisol_load = heap[1].cortisol_load

\* C6: a feature vector that build_features returns has exactly the 13
\* named features, mission_day in [0,10000] and every other feature in
\* [0,1].
C6_FeaturesBounded ==
  Built =>
    /\ DOMAIN feats = FeatureKeys
    /\ feats.mission_day \in 0..10000
    /\ \A k \in FeatureKeys \ {"mission_day"} : feats[k] \in 0..1000

\* C6 witness: build_features returned for a payload whose stress_level
\* 2.5 is out of range, with stress_score clamped to 1.
C6_Witness ==
  /\ call = "build_features"
  /\ ~raised
  /\ payload.mission.d.stress_level = PyFloat(25000)
  /\ feats.stress_score = 1000

\* C7: for every feature vector passed to predict_from_features, also one
\* with missing keys, cortisol_load is in [0,100], cycle_variability_days
\* in [0.5,10] and bone_loss_pct_per_month in [0.2,2.2].
C7_ProjectionBounded ==
  call \in {"predict_from_features", "predict_features", "predict_raw"}
    /\ ~raised
    => /\ pred.cortisol_load \in 0..100000
       /\ pred.cycle_variability_days \in 500..10000
       /\ pred.bone_loss_pct_per_month \in 200..2200

\* C7 witness: predict_from_features got a vector with missing keys and an
\* out-of-range stress_score, and the cycle projection sits at its cap.
C7_Witness ==
  /\ call = "predict_from_features"
  /\ DOMAIN feats = {"stress_score", "sleep_deficit", "gravity_factor"}
  /\ feats.stress_score = 1500
  /\ pred.cycle_variability_days = 10000

EmptyCall == call = "predict_raw" /\ payload = EmptyPayload

DefaultsApplied ==
  /\ feats.gravity_factor = 0
  /\ feats.radiation_factor = 600
  /\ feats.isolation_factor = 600
  /\ feats.stress_score = 500
  /\ feats.sleep_deficit = 0
  /\ feats.mission_day = 0

\* C8 as stated: for the empty payload predict_raw applies all defaults and
\* the outputs have bone_loss_pct_per_month 0.2 and risk_overall Low or
\* Moderate.
C8_Original ==
  EmptyCall =>
    /\ ~raised
    /\ DefaultsApplied
    /\ heap[retRef].bone_loss_pct_per_month = 200
    /\ heap[retRef].risk_overall \in {"Low", "Moderate"}

\* C8: for the empty payload predict_raw applies all defaults and the
\* outputs have bone_loss_pct_per_month 0.27 (the floor 0.2 plus
\* 2.0 * 0.07 * the default stress 0.5) and risk_overall Low.
C8_EmptyPayloadOutputs ==
  EmptyCall =>
    /\ ~raised
    /\ DefaultsApplied
    /\ heap[retRef].bone_loss_pct_per_month = 270
    /\ heap[retRef].risk_overall = "Low"

\* C8 witness: predict_raw returned for the empty payload.
C8_Witness == EmptyCall /\ retRef # 0

S_200 == <<"2", "0", "0">>
Day200Call ==
  /\ Built
  /\ payload.mission.tag = "dict"
  /\ payload.mission.d.mission_day = PyStr(S_200)

\* C9 as stated: mission_day "200" is coerced to 200 and the time factor
\* t = clamp(mission_day / 180, 0, 1.5) is then at its cap 1.5 (270 in
\* units of 1/180).
C9_Original ==
  Day200Call =>
    /\ feats.mission_day = 200
    /\ TimeFactor(feats.mission_day) = 270

\* C9: mission_day "200" is coerced to 200 and the time factor is
\* t = 200/180 (200 in units of 1/180), below the cap 1.5.
C9_Day200TimeFactor ==
  Day200Call =>
    /\ feats.mission_day = 200
    /\ TimeFactor(feats.mission_day) = 200

\* C9 witness: build_features returned for a payload with mission_day "200".
C9_Witness == Day200Call /\ call = "build_features"

\* C10: each interaction term of the vector build_features returns is the
\* product of the two corresponding emitted features, rounded to 3
\* decimals.
C10_InteractionsFromEmitted ==
  Built =>
    /\ feats.stress_x_sleep
         = RoundDiv(feats.stress_score * feats.sleep_deficit, 1000)
    /\ feats.rad_x_grav
         = RoundDiv(feats.radiation_factor * feats.gravity_factor, 1000)
    /\ feats.iso_x_stress
         = RoundDiv(feats.isolation_factor * feats.stress_score, 1000)

\* the three inputs of the cortisol driver as predict_from_features reads
\* them from the feature vector it was given
DriverStress == FGet(feats, "stress_score", 500)
DriverSleep == FGet(feats, "sleep_deficit", 0)
DriverIso == FGet(feats, "isolation_factor", 600)
Simulated ==
  call \in {"predict_from_features", "predict_features", "predict_raw"}
    /\ ~raised

\* C11: the cortisol driver names sleep deficit whenever sleep_deficit >=
\* stress and sleep_deficit >= isolation (ties included); otherwise it names
\* workload/stress whenever stress >= isolation; and it names isolation
\* load exactly when isolation is strictly greater than both stress and
\* sleep_deficit.
C11_CortisolDriverOrder ==
  Simulated =>
    LET sleepFirst == DriverSleep >= DriverStress /\ DriverSleep >= DriverIso
    IN  /\ sleepFirst => pred.drivers.cortisol = "sleep deficit"
        /\ (~sleepFirst /\ DriverStress >= DriverIso)
             => pred.drivers.cortisol = "workload/stress"
        /\ pred.drivers.cortisol = "isolation load"
             <=> (DriverIso > DriverStress /\ DriverIso > DriverSleep)

\* C11 witness: predict_from_features got a three-way tie and named sleep
\* deficit.
C11_Witness ==
  /\ call = "predict_from_features"
  /\ DOMAIN feats = {"stress_score", "sleep_deficit", "isolation_factor"}
  /\ feats.stress_score = 500
  /\ feats.sleep_deficit = 500
  /\ feats.isolation_factor = 500
  /\ pred.drivers.cortisol = "sleep deficit"

\* the unrounded axis scores (units of 1e-5) of the mapping that was passed
\* to attach_risk_breakdown
ArgAxisScores ==
  {cortisol_risk(FGet(argBefore, "cortisol_load", 0)),
   cycle_risk(FGet(argBefore, "cycle_variability_days", 0)),
   bone_risk(FGet(argBefore, "bone_loss_pct_per_month", 200))}

\* the buckets of the three axes in the returned risk_breakdown
ResultAxisBuckets == {heap[retRef].risk_breakdown[a].bucket : a \in Axes}

\* C12: in every result of attach_risk_breakdown the unrounded composite
\* (units of 1e-7) lies between the smallest and the largest axis score,
\* and when the three axis buckets are the same bucket, risk_overall is
\* that bucket.
C12_CompositeBetweenAxes ==
  retRef # 0 =>
    /\ \E lo \in ArgAxisScores :
         100 * lo <= overall_risk_from_outputs(argBefore)
    /\ \E hi \in ArgAxisScores :
         overall_risk_from_outputs(argBefore) <= 100 * hi
    /\ Cardinality(ResultAxisBuckets) = 1
         => heap[retRef].risk_overall \in ResultAxisBuckets

\* C12 witness: attach_risk_breakdown returned three Moderate axes with
\* different scores, cortisol on the 0.35 boundary, and Moderate overall.
C12_Witness ==
  /\ call = "attach_risk_breakdown"
  /\ retRef # 0
  /\ ResultAxisBuckets = {"Moderate"}
  /\ heap[retRef].risk_breakdown.cortisol.score = 350
  /\ heap[retRef].risk_breakdown.cycle.score > 350
  /\ heap[retRef].risk_overall = "Moderate"

====
